---- MODULE Spec2Model ----
(***************************************************************************)
(* heareval/embeddings/task_embeddings.py: the label aligner               *)
(* (get_labels_for_timestamps), the split consolidator (memmap_embeddings) *)
(* and the task driver (task_embeddings) with the per-file persisters it   *)
(* calls, each as a state machine over the variables of the Python         *)
(* function.                                                               *)
(*                                                                         *)
(* Time is counted in ticks of 0.0001 ms, the amount the aligner adds to   *)
(* an interval's end, so that every time of the model is an integer.       *)
(* Floating-point numbers are exact rationals <<n, d>> in lowest terms.    *)
(***************************************************************************)
EXTENDS Integers, Sequences, FiniteSets

VARIABLES
    \* get_labels_for_timestamps: arguments
    mode, to_onehot, default_label, labels, timestamps,
    \* get_labels_for_timestamps: locals
    pc, err, i, j, tree, values, last_label, labels_for_sound, timestamp_labels,
    \* memmap_embeddings: arguments and the per-file artifacts on disk
    metadata, split_files,
    \* memmap_embeddings: locals and the split-level artifacts
    mpc, merr, embedding_files, pos, nembeddings, ndim, dimensions_json,
    embedding_memmap, idx, mlabels, filename_timestamps, flushed,
    target_labels_pkl, filename_timestamps_json, pass1_order, pass2_order,
    \* task_embeddings: the task on disk (metadata["splits"], the <split>.json
    \* files present and their contents) and the estimated batch size
    splits, split_present, split_data, batch_size,
    \* task_embeddings: locals
    dpc, derr, split_at, batched, filenames, embeddings, batch_timestamps,
    batch_labels, save_at,
    \* task_embeddings: the per-file artifacts in each split's outdir, the
    \* misaligned backend outputs so far, the splits memmap_embeddings was
    \* called for and the splits it returned for
    disk, faults, consolidated, completed

alignVars == <<mode, to_onehot, default_label, labels, timestamps,
               pc, err, i, j, tree, values, last_label, labels_for_sound,
               timestamp_labels>>

memmapVars == <<metadata, split_files, mpc, merr, embedding_files, pos,
                nembeddings, ndim, dimensions_json, embedding_memmap, idx,
                mlabels, filename_timestamps, flushed, target_labels_pkl,
                filename_timestamps_json, pass1_order, pass2_order>>

driverVars == <<splits, split_present, split_data, batch_size, dpc, derr,
                split_at, batched, filenames, embeddings, batch_timestamps,
                batch_labels, save_at, disk, faults, consolidated, completed>>

alignArgs == <<mode, to_onehot, default_label, labels, timestamps>>

vars == <<alignVars, memmapVars, driverVars>>

----------------------------------------------------------------------------
(* Bounds of the model *)

\* clips in one batch
MaxClips == 2
\* label events in one batch
MaxEvents == 2
\* timestamps in one batch
MaxTs == 2
\* the last tick of the timeline; label intervals end before it
MaxTime == 3

\* per-file embedding artifacts in one split
MaxFiles == 2
\* T of one clip: the rows of its embedding, its timestamps and its labels;
\* also the labels of one scene clip
MaxLen == 2
\* D: the columns of an embedding
MaxCols == 2

\* splits listed in the task metadata
MaxSplits == 2
\* the estimated batch size
MaxBatch == 2
\* backend outputs of one run that are not aligned with their batch
MaxFaults == 1

\* tree.addi(event["start"], event["end"] + 0.0001, ...): one tick
Eps == 1

Times == 0 .. MaxTime
Labels == {"dog", "cat"}
ValueVectors == {<<0, 0>>, <<1, 2>>}
\* Python's None
None == "None"
\* the local `ndim: int` of memmap_embeddings before its first assignment
Unbound == -1

----------------------------------------------------------------------------
(* Helpers *)

SeqsUpTo(S, n) == UNION {[1 .. k -> S] : k \in 0 .. n}

RECURSIVE TotalLen(_)
TotalLen(ss) == IF ss = <<>> THEN 0 ELSE Len(Head(ss)) + TotalLen(Tail(ss))

Range(s) == {s[k] : k \in DOMAIN s}

RECURSIVE GCD(_, _)
GCD(a, b) == IF b = 0 THEN a ELSE GCD(b, a % b)

Abs(x) == IF x < 0 THEN -x ELSE x

\* a float, as the rational n/d in lowest terms with d > 0
Rat(n, d) ==
    LET g == GCD(Abs(n), Abs(d))
        s == IF d < 0 THEN -1 ELSE 1
    IN  <<(s * n) \div g, (s * d) \div g>>

RSub(x, y) == Rat(x[1] * y[2] - y[1] * x[2], x[2] * y[2])
RAdd(x, y) == Rat(x[1] * y[2] + y[1] * x[2], x[2] * y[2])
RMul(x, y) == Rat(x[1] * y[1], x[2] * y[2])

\* np.asarray(...).astype(np.float) on a vector of numbers
AsFloat(v) == [c \in DOMAIN v |-> Rat(v[c], 1)]

----------------------------------------------------------------------------
(* Inputs of get_labels_for_timestamps *)

Modes == {"default", "smoothed", "continuous", "probabilities"}

\* events of an event task: well-formed intervals (end >= start) that end
\* before the last tick
DefaultEvents ==
    {ev \in [start : Times, end : Times, label : Labels] :
        ev.start <= ev.end /\ ev.end < MaxTime}

\* events of a continuous task
ContinuousEvents == [start : Times, values : ValueVectors]

\* events as mode 'smoothed' reads them
SmoothedEvents == [start : Times, label : Labels]

EventsOf(m) ==
    IF m = "default" THEN DefaultEvents
    ELSE IF m = "continuous" THEN ContinuousEvents
    ELSE SmoothedEvents

\* labels: one list of events per clip
LabelBatches(m) ==
    {b \in SeqsUpTo(SeqsUpTo(EventsOf(m), MaxEvents), MaxClips) :
        TotalLen(b) <= MaxEvents}

\* the timestamps of one clip, as the embedding model emits them: increasing
TimestampLists ==
    {s \in SeqsUpTo(Times, MaxTs) :
        \A k \in 1 .. Len(s) - 1 : s[k] < s[k + 1]}

\* timestamps: one vector per clip
TimestampBatches ==
    {b \in SeqsUpTo(TimestampLists, MaxClips) : TotalLen(b) <= MaxTs}

----------------------------------------------------------------------------
(* get_labels_for_timestamps, mode 'default' *)

\* TreeOf with the interval's end left as given
TreeOf_NoWiden(label) ==
    {[begin |-> label[k].start, end |-> label[k].end,
      data |-> label[k].label] : k \in DOMAIN label}

\* the IntervalTree of one clip: a set of intervals, so an event given twice
\* is one interval
TreeOf(label) ==
    {[begin |-> label[k].start, end |-> label[k].end + Eps,
      data |-> label[k].label] : k \in DOMAIN label}

\* tree[t]: the intervals with begin <= t < end
TreeAt(tr, t) == {iv \in tr : iv.begin <= t /\ t < iv.end}

\* the orders in which a set can be iterated
Orderings(S) ==
    {s \in [1 .. Cardinality(S) -> S] :
        \A a, b \in DOMAIN s : a # b => s[a] # s[b]}

\* OneHot without the carry of the previous choice over an overlap
OneHot_NoCarry(interval_labels, last, dflt) ==
    IF Len(interval_labels) = 0
    THEN <<IF last # None THEN last ELSE dflt>>
    ELSE IF Len(interval_labels) > 1 THEN <<dflt>>
    ELSE interval_labels

\* the to_onehot branch: exactly one label per timestamp
OneHot(interval_labels, last, dflt) ==
    IF Len(interval_labels) = 0
    THEN <<IF last # None THEN last ELSE dflt>>
    ELSE IF Len(interval_labels) > 1
         THEN IF last # None /\ last \in Range(interval_labels)
              THEN <<last>>
              ELSE <<dflt>>
         ELSE interval_labels

----------------------------------------------------------------------------
(* get_labels_for_timestamps, mode 'continuous' *)

RECURSIVE InsertByOnset(_, _)
InsertByOnset(sorted, v) ==
    IF sorted = <<>> THEN <<v>>
    ELSE IF v[1] < Head(sorted)[1]
         THEN <<v>> \o sorted
         ELSE <<Head(sorted)>> \o InsertByOnset(Tail(sorted), v)

\* SortedByOnset leaving the pairs in the order given
SortedByOnset_Unsorted(vs) == vs

\* sorted(values, key=lambda v: v[0]): stable, by onset
RECURSIVE SortedByOnset(_)
SortedByOnset(vs) ==
    IF vs = <<>> THEN <<>>
    ELSE InsertByOnset(SortedByOnset(SubSeq(vs, 1, Len(vs) - 1)), vs[Len(vs)])

\* the (onset, values) pairs of one clip, sorted, the values as floats
ValuesOf(label) ==
    LET pairs == [k \in DOMAIN label |-> <<label[k].start, label[k].values>>]
        srt == SortedByOnset(pairs)
    IN  [k \in DOMAIN srt |-> <<srt[k][1], AsFloat(srt[k][2])>>]

\* np.searchsorted(onsets, t): the leftmost insertion point, 0-based
SearchSorted(onsets, t) == Cardinality({k \in DOMAIN onsets : onsets[k] < t})

\* Interpolate with the two weights exchanged
Interpolate_Swapped(vals, t) ==
    LET onsets == [k \in DOMAIN vals |-> vals[k][1]]
        upper_idx == Cardinality({k \in DOMAIN onsets : onsets[k] < t})
    IN  IF upper_idx = 0 THEN vals[1][2]
        ELSE IF upper_idx = Len(vals) THEN vals[Len(vals)][2]
        ELSE LET lower == onsets[upper_idx]
                 upper == onsets[upper_idx + 1]
                 alpha == Rat(t - lower, upper - lower)
                 vlo == vals[upper_idx][2]
                 vhi == vals[upper_idx + 1][2]
             IN  [c \in DOMAIN vlo |->
                    RAdd(RMul(alpha, vlo[c]),
                         RMul(RSub(<<1, 1>>, alpha), vhi[c]))]

\* Interpolate with alpha = (t - lower) / upper
Interpolate_AlphaOverUpper(vals, t) ==
    LET onsets == [k \in DOMAIN vals |-> vals[k][1]]
        upper_idx == Cardinality({k \in DOMAIN onsets : onsets[k] < t})
    IN  IF upper_idx = 0 THEN vals[1][2]
        ELSE IF upper_idx = Len(vals) THEN vals[Len(vals)][2]
        ELSE LET lower == onsets[upper_idx]
                 upper == onsets[upper_idx + 1]
                 alpha == Rat(t - lower, upper)
                 vlo == vals[upper_idx][2]
                 vhi == vals[upper_idx + 1][2]
             IN  [c \in DOMAIN vlo |->
                    RAdd(RMul(RSub(<<1, 1>>, alpha), vlo[c]),
                         RMul(alpha, vhi[c]))]

\* the label vector at timestamp t, for a clip with at least one event
Interpolate(vals, t) ==
    LET onsets == [k \in DOMAIN vals |-> vals[k][1]]
        upper_idx == SearchSorted(onsets, t)
    IN  IF upper_idx = 0 THEN vals[1][2]
        ELSE IF upper_idx = Len(vals) THEN vals[Len(vals)][2]
        ELSE LET lower == onsets[upper_idx]
                 upper == onsets[upper_idx + 1]
                 alpha == Rat(t - lower, upper - lower)
                 vlo == vals[upper_idx][2]
                 vhi == vals[upper_idx + 1][2]
             IN  [c \in DOMAIN vlo |->
                    RAdd(RMul(RSub(<<1, 1>>, alpha), vlo[c]),
                         RMul(alpha, vhi[c]))]

----------------------------------------------------------------------------
(* get_labels_for_timestamps as a state machine *)

\* memmap_embeddings not called
MemmapIdle ==
    /\ metadata = [embedding_type |-> None, prediction_type |-> None]
    /\ split_files = <<>>
    /\ mpc = "idle"
    /\ merr = None
    /\ embedding_files = <<>>
    /\ pos = 0
    /\ nembeddings = 0
    /\ ndim = Unbound
    /\ dimensions_json = <<>>
    /\ embedding_memmap = <<>>
    /\ idx = 0
    /\ mlabels = <<>>
    /\ filename_timestamps = <<>>
    /\ flushed = FALSE
    /\ target_labels_pkl = <<>>
    /\ filename_timestamps_json = <<>>
    /\ pass1_order = <<>>
    /\ pass2_order = <<>>

\* task_embeddings not called
DriverIdle ==
    /\ splits = <<>>
    /\ split_present = {}
    /\ split_data = <<>>
    /\ batch_size = 0
    /\ dpc = "idle"
    /\ derr = None
    /\ split_at = 0
    /\ batched = 0
    /\ filenames = <<>>
    /\ embeddings = <<>>
    /\ batch_timestamps = <<>>
    /\ batch_labels = <<>>
    /\ save_at = 0
    /\ disk = <<>>
    /\ faults = 0
    /\ consolidated = <<>>
    /\ completed = <<>>

InitAlign ==
    /\ MemmapIdle
    /\ DriverIdle
    /\ mode \in Modes
    /\ \/ to_onehot = FALSE /\ default_label = None
       \/ mode = "default" /\ to_onehot = TRUE
          /\ default_label \in {"cat", "silence"}
    /\ labels \in LabelBatches(mode)
    /\ timestamps \in TimestampBatches
    /\ pc = "call"
    /\ err = None
    /\ i = 0
    /\ j = 0
    /\ tree = {}
    /\ values = <<>>
    /\ last_label = None
    /\ labels_for_sound = <<>>
    /\ timestamp_labels = <<>>

Raise(e) == pc' = "raised" /\ err' = e

\* KnownMode with the final else branch never taken
KnownMode_Any(m) == TRUE

\* the if / elif / elif chain on mode has a branch for m
KnownMode(m) == m \in {"default", "smoothed", "continuous"}

\* entry: the length assertion and the dispatch on mode
Enter ==
    /\ pc = "call"
    /\ IF Len(labels) # Len(timestamps)
       THEN Raise("AssertionError")
       ELSE IF KnownMode(mode)
            THEN pc' = "clips" /\ err' = err
            ELSE Raise("TypeError")
    /\ i' = 1
    /\ UNCHANGED <<driverVars, memmapVars, alignArgs, j, tree,
                   values, last_label, labels_for_sound, timestamp_labels>>

\* mode 'default': the head of the loop over clips
DefaultBeginClip ==
    /\ pc = "clips" /\ mode = "default" /\ i <= Len(labels)
    /\ tree' = TreeOf(labels[i])
    /\ labels_for_sound' = <<>>
    /\ last_label' = None
    /\ j' = 1
    /\ pc' = "timestamps"
    /\ UNCHANGED <<driverVars, memmapVars, alignArgs, err, i,
                   values, timestamp_labels>>

\* mode 'default': one timestamp of the clip
DefaultTimestamp ==
    /\ pc = "timestamps" /\ mode = "default" /\ j <= Len(timestamps[i])
    /\ \E order \in Orderings(TreeAt(tree, timestamps[i][j])) :
          LET interval_labels == [k \in DOMAIN order |-> order[k].data]
              chosen == IF to_onehot
                        THEN OneHot(interval_labels, last_label, default_label)
                        ELSE interval_labels
          IN  /\ last_label' = IF to_onehot THEN chosen[1] ELSE last_label
              /\ labels_for_sound' = Append(labels_for_sound, chosen)
    /\ j' = j + 1
    /\ UNCHANGED <<driverVars, memmapVars, alignArgs, pc, err,
                   i, tree, values, timestamp_labels>>

\* mode 'default': the clip's labels join the result
DefaultEndClip ==
    /\ pc = "timestamps" /\ mode = "default" /\ j > Len(timestamps[i])
    /\ timestamp_labels' = Append(timestamp_labels, labels_for_sound)
    /\ i' = i + 1
    /\ pc' = "clips"
    /\ UNCHANGED <<driverVars, memmapVars, alignArgs, err, j,
                   tree, values, last_label, labels_for_sound>>

\* mode 'smoothed': the first clip reads the local `values` before any
\* assignment to it
SmoothedBeginClip ==
    /\ pc = "clips" /\ mode = "smoothed" /\ i <= Len(labels)
    /\ Raise("UnboundLocalError")
    /\ UNCHANGED <<driverVars, memmapVars, alignArgs, i, j,
                   tree, values, last_label, labels_for_sound, timestamp_labels>>

\* mode 'continuous': the head of the loop over clips
ContinuousBeginClip ==
    /\ pc = "clips" /\ mode = "continuous" /\ i <= Len(labels)
    /\ values' = ValuesOf(labels[i])
    /\ labels_for_sound' = <<>>
    /\ j' = 1
    /\ pc' = "timestamps"
    /\ UNCHANGED <<driverVars, memmapVars, alignArgs, err, i,
                   tree, last_label, timestamp_labels>>

\* mode 'continuous': one timestamp of the clip; values[0] and values[-1] of
\* a clip without events are out of bounds
ContinuousTimestamp ==
    /\ pc = "timestamps" /\ mode = "continuous" /\ j <= Len(timestamps[i])
    /\ IF Len(values) = 0
       THEN /\ Raise("IndexError")
            /\ UNCHANGED <<j, labels_for_sound>>
       ELSE /\ labels_for_sound' =
                  Append(labels_for_sound, Interpolate(values, timestamps[i][j]))
            /\ j' = j + 1
            /\ UNCHANGED <<pc, err>>
    /\ UNCHANGED <<driverVars, memmapVars, alignArgs, i, tree,
                   values, last_label, timestamp_labels>>

\* mode 'continuous': the clip's labels join the result
ContinuousEndClip ==
    /\ pc = "timestamps" /\ mode = "continuous" /\ j > Len(timestamps[i])
    /\ timestamp_labels' = Append(timestamp_labels, labels_for_sound)
    /\ i' = i + 1
    /\ pc' = "clips"
    /\ UNCHANGED <<driverVars, memmapVars, alignArgs, err, j,
                   tree, values, last_label, labels_for_sound>>

\* after the last clip: the final assertion and the return
Return ==
    /\ pc = "clips" /\ i > Len(labels)
    /\ IF Len(timestamp_labels) = Len(timestamps)
       THEN pc' = "returned" /\ err' = err
       ELSE Raise("AssertionError")
    /\ UNCHANGED <<driverVars, memmapVars, alignArgs, i, j,
                   tree, values, last_label, labels_for_sound, timestamp_labels>>

NextAlign ==
    \/ Enter
    \/ DefaultBeginClip
    \/ DefaultTimestamp
    \/ DefaultEndClip
    \/ SmoothedBeginClip
    \/ ContinuousBeginClip
    \/ ContinuousTimestamp
    \/ ContinuousEndClip
    \/ Return


----------------------------------------------------------------------------
(* Inputs of memmap_embeddings: the metadata and the per-file artifacts the *)
(* per-file persister left in outdir, one per key of split_data.  A file is *)
(*   shape: the shape of <file>.embedding.npy                               *)
(*   dtype: its dtype                                                       *)
(*   lbl:   the length of the list in <file>.target-labels.json             *)
(*   ts:    the length of the list in <file>.timestamps.json                *)
(* An artifact not yet written is <<>>; a written list is <<list>>.         *)
(* Row r of file f's embedding is the token [file |-> f, at |-> r], and so  *)
(* are its r-th label and its r-th timestamp.                               *)

TimestampTypes == {"event", "continuous"}

\* the file the persister writes for a scene clip with n labels
SceneFile(d, n) == [shape |-> <<d>>, dtype |-> "float32", lbl |-> n, ts |-> 0]

\* the file the persister writes for a clip with t timestamps
TimestampFile(d, t) ==
    [shape |-> <<t, d>>, dtype |-> "float32", lbl |-> t, ts |-> t]

\* a split as the task driver leaves it: every file has D columns
GoodSplits(type) ==
    UNION {
        {[f \in 1 .. n |->
            IF type = "scene" THEN SceneFile(d, len[f])
            ELSE TimestampFile(d, len[f])] :
          len \in [1 .. n -> (IF type = "scene" THEN 0 ELSE 1) .. MaxLen]}
        : n \in 0 .. MaxFiles, d \in 1 .. MaxCols}

\* the ways one file can deviate from what the persister writes
Deviations(type, file) ==
    LET d == file.shape[Len(file.shape)]
    IN  {[file EXCEPT !.dtype = "float64"]}
        \cup {[file EXCEPT !.shape[Len(file.shape)] = c] :
                c \in (1 .. MaxCols) \ {d}}
        \cup (IF type = "scene"
              THEN {[file EXCEPT !.shape = <<1, d>>]}
              ELSE {[file EXCEPT !.shape = <<d>>]}
                   \cup {[file EXCEPT !.lbl = t, !.ts = t] :
                           t \in (0 .. MaxLen) \ {file.lbl}})

\* the splits of the model: at most one file deviates
Splits(type) ==
    GoodSplits(type)
    \cup UNION {UNION {{[s EXCEPT ![k] = g] : g \in Deviations(type, s[k])} :
                         k \in DOMAIN s} :
                  s \in GoodSplits(type)}

Token(f, r) == [file |-> f, at |-> r]

\* np.load(embedding_file): its rows
Rows(f) ==
    LET sh == split_files[f].shape
    IN  IF Len(sh) = 1 THEN <<Token(f, 1)>>
        ELSE [r \in 1 .. sh[1] |-> Token(f, r)]

\* json.load of <file>.target-labels.json
Lbl(f) == [k \in 1 .. split_files[f].lbl |-> Token(f, k)]

\* json.load of <file>.timestamps.json
Timestamps(f) == [k \in 1 .. split_files[f].ts |-> Token(f, k)]

Permutations(n) ==
    {p \in [1 .. n -> 1 .. n] : \A a, b \in 1 .. n : a # b => p[a] # p[b]}

----------------------------------------------------------------------------
(* memmap_embeddings *)

\* an unwritten row of the np.memmap
Zero == Token(0, 0)

\* CountOf counting one embedding per file whatever the type
CountOf_One(type, shape) == 1

\* pass 1: what one file adds to nembeddings
CountOf(type, shape) == IF type = "scene" THEN 1 ELSE shape[1]

\* pass 1: the ndim one file sets
NdimOf(type, shape) == IF type = "scene" THEN shape[1] ELSE shape[2]

\* numpy broadcasting of c columns into a row of d columns
Broadcasts(c, d) == c = d \/ c = 1

\* np.load(embedding_file).astype(np.float32): the dtype of the array pass 1
\* looks at, whatever dtype the file stores
AsType_Stored(dtype) == dtype

AsType(dtype) == "float32"

\* LabelCountOk with no cardinality check at all
LabelCountOk_Any(prediction_type, n) == TRUE

\* pass 2, scene: the assertion on the label list of one file.  For
\* 'multilabel' the assertion is isinstance(lbl, list), true of every label
\* artifact; for any other prediction type the else branch builds a
\* NotImplementedError and does not raise it.
LabelCountOk(prediction_type, n) == prediction_type = "multiclass" => n = 1

\* WriteRows writing every file at the start of the array
WriteRows_AtStart(mm, at, rows) ==
    [k \in DOMAIN mm |-> IF k <= Len(rows) THEN rows[k] ELSE mm[k]]

\* embedding_memmap[at : at + len(rows)] = rows
WriteRows(mm, at, rows) ==
    [k \in DOMAIN mm |->
        IF at < k /\ k <= at + Len(rows) THEN rows[k - at] ELSE mm[k]]


----------------------------------------------------------------------------
(* The specification of the aligner, and memmap_embeddings as a state       *)
(* machine                                                                  *)

\* one call of get_labels_for_timestamps
SpecAlign == InitAlign /\ [][NextAlign]_vars


\* get_labels_for_timestamps not called
AlignIdle ==
    /\ mode = None
    /\ to_onehot = FALSE
    /\ default_label = None
    /\ labels = <<>>
    /\ timestamps = <<>>
    /\ pc = "idle"
    /\ err = None
    /\ i = 0
    /\ j = 0
    /\ tree = {}
    /\ values = <<>>
    /\ last_label = None
    /\ labels_for_sound = <<>>
    /\ timestamp_labels = <<>>

PredictionTypes(type) ==
    IF type = "scene" THEN {"multiclass", "multilabel", "regression"}
    ELSE {"multiclass", "multilabel"}

InitMemmap ==
    /\ AlignIdle
    /\ DriverIdle
    /\ \/ \E type \in {"scene"} \cup TimestampTypes :
            /\ metadata \in [embedding_type : {type},
                             prediction_type : PredictionTypes(type)]
            /\ split_files \in Splits(type)
       \/ /\ metadata = [embedding_type |-> "unknown",
                         prediction_type |-> "multilabel"]
          /\ split_files \in GoodSplits("event")
    /\ mpc = "shuffle"
    /\ merr = None
    /\ embedding_files = <<>>
    /\ pos = 0
    /\ nembeddings = 0
    /\ ndim = Unbound
    /\ dimensions_json = <<>>
    /\ embedding_memmap = <<>>
    /\ idx = 0
    /\ mlabels = <<>>
    /\ filename_timestamps = <<>>
    /\ flushed = FALSE
    /\ target_labels_pkl = <<>>
    /\ filename_timestamps_json = <<>>
    /\ pass1_order = <<>>
    /\ pass2_order = <<>>

MRaise(e) == mpc' = "raised" /\ merr' = e

memmapArgs == <<metadata, split_files>>

\* the list of embedding files, shuffled by the seeded prng
Shuffle ==
    /\ mpc = "shuffle"
    /\ embedding_files' \in Permutations(Len(split_files))
    /\ nembeddings' = 0
    /\ pos' = 1
    /\ mpc' = "pass1"
    /\ UNCHANGED <<driverVars, alignVars, memmapArgs, merr, ndim, dimensions_json,
                   embedding_memmap, idx, mlabels, filename_timestamps,
                   flushed, target_labels_pkl, filename_timestamps_json,
                   pass1_order, pass2_order>>

\* pass 1, one file: count its embeddings; the array is loaded as float32
Pass1File ==
    /\ mpc = "pass1" /\ pos <= Len(embedding_files)
    /\ LET f == embedding_files[pos]
           type == metadata.embedding_type
           shape == split_files[f].shape
           rank == IF type = "scene" THEN 1 ELSE 2
           dtype == AsType(split_files[f].dtype)
       IN  /\ pass1_order' = Append(pass1_order, f)
           /\ IF type \notin {"scene"} \cup TimestampTypes
              THEN /\ MRaise("ValueError")
                   /\ UNCHANGED <<nembeddings, ndim, pos>>
              ELSE IF Len(shape) # rank \/ dtype # "float32"
              THEN /\ MRaise("AssertionError")
                   /\ UNCHANGED <<nembeddings, ndim, pos>>
              ELSE /\ nembeddings' = nembeddings + CountOf(type, shape)
                   /\ ndim' = NdimOf(type, shape)
                   /\ pos' = pos + 1
                   /\ UNCHANGED <<mpc, merr>>
    /\ UNCHANGED <<driverVars, alignVars, memmapArgs, embedding_files, dimensions_json,
                   embedding_memmap, idx, mlabels, filename_timestamps,
                   flushed, target_labels_pkl, filename_timestamps_json,
                   pass2_order>>

\* <split>.embedding-dimensions.json; ndim is unbound when no file was seen
WriteDimensions ==
    /\ mpc = "pass1" /\ pos > Len(embedding_files)
    /\ IF ndim = Unbound
       THEN MRaise("UnboundLocalError") /\ UNCHANGED dimensions_json
       ELSE /\ dimensions_json' = <<nembeddings, ndim>>
            /\ mpc' = "allocate"
            /\ UNCHANGED merr
    /\ UNCHANGED <<driverVars, alignVars, memmapArgs, embedding_files, pos, nembeddings,
                   ndim, embedding_memmap, idx, mlabels, filename_timestamps,
                   flushed, target_labels_pkl, filename_timestamps_json,
                   pass1_order, pass2_order>>

\* np.memmap(..., mode="w+", shape=(nembeddings, ndim)) and the pass 2 locals
Allocate ==
    /\ mpc = "allocate"
    /\ embedding_memmap' = [k \in 1 .. nembeddings |-> Zero]
    /\ idx' = 0
    /\ mlabels' = <<>>
    /\ filename_timestamps' = <<>>
    /\ pos' = 1
    /\ mpc' = "pass2"
    /\ UNCHANGED <<driverVars, alignVars, memmapArgs, merr, embedding_files, nembeddings,
                   ndim, dimensions_json, flushed, target_labels_pkl,
                   filename_timestamps_json, pass1_order, pass2_order>>

\* pass 2, one file of a scene split
Pass2Scene(f) ==
    LET shape == split_files[f].shape
        lbl == Lbl(f)
        rankOk == Len(shape) = 1
        fits == rankOk /\ Broadcasts(shape[1], ndim)
        lblOk == fits /\ LabelCountOk(metadata.prediction_type, Len(lbl))
    IN  /\ embedding_memmap' =
              IF fits THEN WriteRows(embedding_memmap, idx, Rows(f))
              ELSE embedding_memmap
        /\ mlabels' = IF lblOk THEN Append(mlabels, lbl) ELSE mlabels
        /\ idx' = IF lblOk THEN idx + 1 ELSE idx
        /\ pos' = IF lblOk THEN pos + 1 ELSE pos
        /\ IF ~rankOk THEN MRaise("AssertionError")
           ELSE IF ~fits THEN MRaise("ValueError")
           ELSE IF ~lblOk THEN MRaise("AssertionError")
           ELSE UNCHANGED <<mpc, merr>>
        /\ UNCHANGED filename_timestamps

\* pass 2, one file of an event or continuous split
Pass2Timestamp(f) ==
    LET shape == split_files[f].shape
        lbl == Lbl(f)
        ts == Timestamps(f)
        rankOk == Len(shape) = 2
        fits == rankOk /\ Broadcasts(shape[2], ndim)
        lblOk == fits /\ shape[1] = Len(lbl)
        tsOk == lblOk /\ shape[1] = Len(ts) /\ Len(lbl) = Len(ts)
    IN  /\ embedding_memmap' =
              IF fits THEN WriteRows(embedding_memmap, idx, Rows(f))
              ELSE embedding_memmap
        /\ mlabels' = IF lblOk THEN mlabels \o lbl ELSE mlabels
        /\ filename_timestamps' =
              IF lblOk
              THEN filename_timestamps \o [k \in DOMAIN ts |-> <<f, ts[k]>>]
              ELSE filename_timestamps
        /\ idx' = IF tsOk THEN idx + shape[1] ELSE idx
        /\ pos' = IF tsOk THEN pos + 1 ELSE pos
        /\ IF ~rankOk THEN MRaise("AssertionError")
           ELSE IF ~fits THEN MRaise("ValueError")
           ELSE IF ~tsOk THEN MRaise("AssertionError")
           ELSE UNCHANGED <<mpc, merr>>

\* pass 2, one file: copy its rows into the next slice, collect its labels
Pass2File ==
    /\ mpc = "pass2" /\ pos <= Len(embedding_files)
    /\ LET f == embedding_files[pos]
       IN  /\ pass2_order' = Append(pass2_order, f)
           /\ IF metadata.embedding_type = "scene" THEN Pass2Scene(f)
              ELSE IF metadata.embedding_type \in TimestampTypes
              THEN Pass2Timestamp(f)
              ELSE /\ MRaise("ValueError")
                   /\ UNCHANGED <<embedding_memmap, mlabels,
                                  filename_timestamps, idx, pos>>
    /\ UNCHANGED <<driverVars, alignVars, memmapArgs, embedding_files, nembeddings, ndim,
                   dimensions_json, flushed, target_labels_pkl,
                   filename_timestamps_json, pass1_order>>

\* embedding_memmap.flush()
Flush ==
    /\ mpc = "pass2" /\ pos > Len(embedding_files)
    /\ flushed' = TRUE
    /\ mpc' = "dump"
    /\ UNCHANGED <<driverVars, alignVars, memmapArgs, merr, embedding_files, pos,
                   nembeddings, ndim, dimensions_json, embedding_memmap, idx,
                   mlabels, filename_timestamps, target_labels_pkl,
                   filename_timestamps_json, pass1_order, pass2_order>>

\* WriteTargetLabels dumping the labels at the end of pass 2, ahead of the
\* flush
WriteTargetLabels_BeforeFlush ==
    /\ mpc = "pass2" /\ pos > Len(embedding_files)
    /\ target_labels_pkl' = <<mlabels>>
    /\ mpc' = IF metadata.embedding_type \in TimestampTypes
              THEN "timestamps" ELSE "done"
    /\ UNCHANGED <<driverVars, alignVars, memmapArgs, merr, embedding_files, pos,
                   nembeddings, ndim, dimensions_json, embedding_memmap, idx,
                   mlabels, filename_timestamps, flushed,
                   filename_timestamps_json, pass1_order, pass2_order>>

\* <split>.target-labels.pkl
WriteTargetLabels ==
    /\ mpc = "dump"
    /\ target_labels_pkl' = <<mlabels>>
    /\ mpc' = IF metadata.embedding_type \in TimestampTypes
              THEN "timestamps" ELSE "done"
    /\ UNCHANGED <<driverVars, alignVars, memmapArgs, merr, embedding_files, pos,
                   nembeddings, ndim, dimensions_json, embedding_memmap, idx,
                   mlabels, filename_timestamps, flushed,
                   filename_timestamps_json, pass1_order, pass2_order>>

\* <split>.filename-timestamps.json, for event and continuous splits
WriteFilenameTimestamps ==
    /\ mpc = "timestamps"
    /\ IF Len(mlabels) = Len(filename_timestamps)
       THEN /\ filename_timestamps_json' = <<filename_timestamps>>
            /\ mpc' = "done"
            /\ UNCHANGED merr
       ELSE MRaise("AssertionError") /\ UNCHANGED filename_timestamps_json
    /\ UNCHANGED <<driverVars, alignVars, memmapArgs, embedding_files, pos, nembeddings,
                   ndim, dimensions_json, embedding_memmap, idx, mlabels,
                   filename_timestamps, flushed, target_labels_pkl,
                   pass1_order, pass2_order>>

NextMemmap ==
    \/ Shuffle
    \/ Pass1File
    \/ WriteDimensions
    \/ Allocate
    \/ Pass2File
    \/ Flush
    \/ WriteTargetLabels
    \/ WriteFilenameTimestamps

\* one call of memmap_embeddings
SpecMemmap == InitMemmap /\ [][NextMemmap]_vars

----------------------------------------------------------------------------
(* task_embeddings and the per-file persisters.  The task on disk is the   *)
(* list metadata["splits"], the <split>.json files present, and their      *)
(* contents: per file (the files of a split are numbered in the order of   *)
(* the json's keys, which is the order the data loader yields them) the    *)
(* file's labels.  The embedding backend is outside of the module: what it *)
(* returns for a batch is chosen among the outputs below.                  *)

SplitNames == {"train", "test"}

\* metadata["splits"]: distinct names
SplitLists ==
    {l \in SeqsUpTo(SplitNames, MaxSplits) :
        \A a, b \in DOMAIN l : a # b => l[a] # l[b]}

\* the labels <split>.json can hold for one file
FileLabels(type) ==
    IF type = "scene" THEN {<<"dog">>, <<"dog", "cat">>}
    ELSE IF type = "continuous"
    THEN {<<>>, <<[start |-> 0, values |-> <<1, 2>>]>>}
    ELSE {<<>>, <<[start |-> 0, end |-> 1, label |-> "dog"]>>}

\* labelvocabulary.csv without its header line, and label_vocab[-1][1]
LabelVocab == <<"dog", "cat">>
LastVocabLabel == LabelVocab[Len(LabelVocab)]

\* embedding.sample_rate-independent size of one embedding vector
EmbeddingSize == MaxCols

\* the timestamps of t frames
Grid(t) == [k \in 1 .. t |-> k - 1]

\* what the backend returns for a scene batch of n clips: one vector per
\* clip, or a vector too few or too many
SceneOutputs(n) ==
    {[k \in 1 .. m |-> <<EmbeddingSize>>] : m \in {n - 1, n, n + 1}}

\* what the backend returns for an event or continuous batch of n clips:
\* embeddings of T_i rows with the T_i timestamps of each clip, or such a
\* batch with an embedding or a timestamp vector too few or too many, or with
\* one clip whose embedding has another number of rows than it has timestamps
TimestampOutputs(n) ==
    LET out(m, r, t) ==
            [emb |-> [k \in 1 .. m |-> <<r[k], EmbeddingSize>>],
             ts |-> [k \in 1 .. Len(t) |-> Grid(t[k])]]
    IN  UNION {
          {out(n, t, t)}
          \cup {out(m, [k \in 1 .. m |-> IF k <= n THEN t[k] ELSE 1], t) :
                  m \in {n - 1, n + 1}}
          \cup {out(n, t, SubSeq(t, 1, n - 1)), out(n, t, Append(t, 1))}
          \cup UNION {{out(n, [t EXCEPT ![c] = r], t) :
                          r \in (1 .. MaxLen) \ {t[c]}} : c \in 1 .. n}
          : t \in [1 .. n -> 1 .. MaxLen]}

\* the backend output is the aligned one
SceneAligned(n, emb) == Len(emb) = n
TimestampAligned(n, out) ==
    /\ Len(out.emb) = n /\ Len(out.ts) = n
    /\ \A k \in 1 .. n : out.emb[k][1] = Len(out.ts[k])

\* a per-file artifact set not written
Missing == [shape |-> <<>>, dtype |-> None, lbl |-> 0, ts |-> 0]

InitDriver ==
    /\ AlignIdle
    /\ \/ \E type \in {"scene"} \cup TimestampTypes :
            metadata \in [embedding_type : {type},
                          prediction_type : {"multiclass", "multilabel"}]
       \/ metadata = [embedding_type |-> "unknown",
                      prediction_type |-> "multilabel"]
    /\ splits \in SplitLists
    /\ split_present \in {SplitNames} \cup {SplitNames \ {n} : n \in SplitNames}
    /\ split_data \in [SplitNames ->
                         SeqsUpTo(FileLabels(metadata.embedding_type), MaxFiles)]
    /\ batch_size \in 1 .. MaxBatch
    /\ dpc = "split"
    /\ derr = None
    /\ split_at = 1
    /\ batched = 0
    /\ filenames = <<>>
    /\ embeddings = <<>>
    /\ batch_timestamps = <<>>
    /\ batch_labels = <<>>
    /\ save_at = 0
    /\ disk = [n \in SplitNames |-> [f \in DOMAIN split_data[n] |-> Missing]]
    /\ faults = 0
    /\ consolidated = <<>>
    /\ completed = <<>>
    /\ split_files = <<>>
    /\ mpc = "idle"
    /\ merr = None
    /\ embedding_files = <<>>
    /\ pos = 0
    /\ nembeddings = 0
    /\ ndim = Unbound
    /\ dimensions_json = <<>>
    /\ embedding_memmap = <<>>
    /\ idx = 0
    /\ mlabels = <<>>
    /\ filename_timestamps = <<>>
    /\ flushed = FALSE
    /\ target_labels_pkl = <<>>
    /\ filename_timestamps_json = <<>>
    /\ pass1_order = <<>>
    /\ pass2_order = <<>>

DRaise(e) == dpc' = "raised" /\ derr' = e

driverArgs == <<splits, split_present, split_data, batch_size>>

\* the split the loop over metadata["splits"] is at
Split == splits[split_at]

\* the head of the loop over the splits: <split>.json must be there
BeginSplit ==
    /\ dpc = "split" /\ split_at <= Len(splits)
    /\ IF Split \in split_present
       THEN dpc' = "batch" /\ UNCHANGED derr
       ELSE DRaise("AssertionError")
    /\ batched' = 0
    /\ UNCHANGED <<alignVars, memmapVars, driverArgs, split_at, filenames,
                   embeddings, batch_timestamps, batch_labels, save_at, disk,
                   faults, consolidated, completed>>

\* one batch of the data loader: its labels, the backend's embeddings, and
\* for an event or continuous task the call of get_labels_for_timestamps
EmbedBatch ==
    /\ dpc = "batch" /\ batched < Len(split_data[Split])
    /\ LET type == metadata.embedding_type
           left == Len(split_data[Split]) - batched
           n == IF left < batch_size THEN left ELSE batch_size
           lbls == [k \in 1 .. n |-> split_data[Split][batched + k]]
       IN  /\ filenames' = [k \in 1 .. n |-> batched + k]
           /\ batch_labels' = lbls
           /\ IF type = "scene"
              THEN /\ \E emb \in SceneOutputs(n) :
                        /\ SceneAligned(n, emb) \/ faults < MaxFaults
                        /\ embeddings' = emb
                        /\ faults' = IF SceneAligned(n, emb) THEN faults
                                     ELSE faults + 1
                   /\ batch_timestamps' = <<>>
                   /\ dpc' = "save_scene_enter"
                   /\ UNCHANGED <<derr, alignVars>>
              ELSE IF type \in TimestampTypes
              THEN /\ \E out \in TimestampOutputs(n) :
                        /\ TimestampAligned(n, out) \/ faults < MaxFaults
                        /\ embeddings' = out.emb
                        /\ batch_timestamps' = out.ts
                        /\ timestamps' = out.ts
                        /\ faults' = IF TimestampAligned(n, out) THEN faults
                                     ELSE faults + 1
                   /\ mode' = IF type = "continuous" THEN "continuous"
                              ELSE "default"
                   /\ to_onehot' = (metadata.prediction_type = "multiclass")
                   /\ default_label' = LastVocabLabel
                   /\ labels' = lbls
                   /\ pc' = "call"
                   /\ err' = None
                   /\ i' = 0 /\ j' = 0
                   /\ tree' = {}
                   /\ values' = <<>>
                   /\ last_label' = None
                   /\ labels_for_sound' = <<>>
                   /\ timestamp_labels' = <<>>
                   /\ dpc' = "align"
                   /\ UNCHANGED derr
              ELSE /\ DRaise("ValueError")
                   /\ UNCHANGED <<alignVars, embeddings, batch_timestamps,
                                  faults>>
    /\ save_at' = 0
    /\ UNCHANGED <<memmapVars, driverArgs, split_at, batched, disk,
                   consolidated, completed>>

\* get_labels_for_timestamps returned: the two assertions of the driver
AlignerReturned ==
    /\ dpc = "align" /\ pc = "returned"
    /\ batch_labels' = timestamp_labels
    /\ IF Len(timestamp_labels) # Len(filenames)
       THEN DRaise("AssertionError")
       ELSE IF timestamp_labels = <<>> \/ batch_timestamps = <<>>
       THEN DRaise("IndexError")
       ELSE IF Len(timestamp_labels[1]) # Len(batch_timestamps[1])
       THEN DRaise("AssertionError")
       ELSE dpc' = "save_timestamp" /\ UNCHANGED derr
    /\ save_at' = 1
    /\ UNCHANGED <<alignVars, memmapVars, driverArgs, split_at, batched,
                   filenames, embeddings, batch_timestamps, disk, faults,
                   consolidated, completed>>

\* get_labels_for_timestamps raised: the error leaves task_embeddings
AlignerRaised ==
    /\ dpc = "align" /\ pc = "raised"
    /\ DRaise(err)
    /\ UNCHANGED <<alignVars, memmapVars, driverArgs, split_at, batched,
                   filenames, embeddings, batch_timestamps, batch_labels,
                   save_at, disk, faults, consolidated, completed>>

\* the artifacts written for the clip at k of a batch, as far as the
\* sequences of the batch reach
ArtifactOf(k, type) ==
    [shape |-> embeddings[k],
     dtype |-> "float32",
     lbl |-> IF k <= Len(batch_labels) THEN Len(batch_labels[k]) ELSE 0,
     ts |-> IF type # "scene" /\ k <= Len(batch_timestamps)
            THEN Len(batch_timestamps[k]) ELSE 0]

\* save_timestamp_embedding_and_labels, one file: embedding.npy, then
\* timestamps.json, then target-labels.json.  The timestamp vectors of the
\* model are one-dimensional, as the assertion in between requires.
SaveTimestampFile ==
    /\ dpc = "save_timestamp" /\ save_at <= Len(filenames)
    /\ IF save_at > Len(embeddings)
       THEN /\ DRaise("IndexError")
            /\ UNCHANGED <<disk, save_at>>
       ELSE /\ disk' = [disk EXCEPT ![Split][filenames[save_at]] =
                            ArtifactOf(save_at, "event")]
            /\ IF save_at > Len(batch_timestamps) \/ save_at > Len(batch_labels)
               THEN DRaise("IndexError") /\ UNCHANGED save_at
               ELSE save_at' = save_at + 1 /\ UNCHANGED <<dpc, derr>>
    /\ UNCHANGED <<alignVars, memmapVars, driverArgs, split_at, batched,
                   filenames, embeddings, batch_timestamps, batch_labels,
                   faults, consolidated, completed>>

\* SaveSceneEnter without the two assertions
SaveSceneEnter_Unchecked ==
    /\ dpc = "save_scene_enter"
    /\ dpc' = "save_scene"
    /\ save_at' = 1
    /\ UNCHANGED <<alignVars, memmapVars, driverArgs, derr, split_at, batched,
                   filenames, embeddings, batch_timestamps, batch_labels,
                   disk, faults, consolidated, completed>>

\* save_scene_embedding_and_labels: the two assertions on entry
SaveSceneEnter ==
    /\ dpc = "save_scene_enter"
    /\ IF Len(embeddings) = Len(filenames) /\ Len(batch_labels) = Len(filenames)
       THEN dpc' = "save_scene" /\ UNCHANGED derr
       ELSE DRaise("AssertionError")
    /\ save_at' = 1
    /\ UNCHANGED <<alignVars, memmapVars, driverArgs, split_at, batched,
                   filenames, embeddings, batch_timestamps, batch_labels,
                   disk, faults, consolidated, completed>>

\* save_scene_embedding_and_labels, one file: embedding.npy, then
\* target-labels.json
SaveSceneFile ==
    /\ dpc = "save_scene" /\ save_at <= Len(filenames)
    /\ IF save_at > Len(embeddings)
       THEN /\ DRaise("IndexError")
            /\ UNCHANGED <<disk, save_at>>
       ELSE /\ disk' = [disk EXCEPT ![Split][filenames[save_at]] =
                            ArtifactOf(save_at, "scene")]
            /\ IF save_at > Len(batch_labels)
               THEN DRaise("IndexError") /\ UNCHANGED save_at
               ELSE save_at' = save_at + 1 /\ UNCHANGED <<dpc, derr>>
    /\ UNCHANGED <<alignVars, memmapVars, driverArgs, split_at, batched,
                   filenames, embeddings, batch_timestamps, batch_labels,
                   faults, consolidated, completed>>

\* the persister returned: on to the next batch
EndBatch ==
    /\ dpc \in {"save_scene", "save_timestamp"} /\ save_at > Len(filenames)
    /\ batched' = batched + Len(filenames)
    /\ dpc' = "batch"
    /\ UNCHANGED <<alignVars, memmapVars, driverArgs, derr, split_at,
                   filenames, embeddings, batch_timestamps, batch_labels,
                   save_at, disk, faults, consolidated, completed>>

\* the call of memmap_embeddings, with fresh locals, on the split's outdir
EnterMemmap ==
    /\ consolidated' = Append(consolidated, Split)
    /\ split_files' = disk[Split]
    /\ mpc' = "shuffle"
    /\ merr' = None
    /\ embedding_files' = <<>>
    /\ pos' = 0
    /\ nembeddings' = 0
    /\ ndim' = Unbound
    /\ dimensions_json' = <<>>
    /\ embedding_memmap' = <<>>
    /\ idx' = 0
    /\ mlabels' = <<>>
    /\ filename_timestamps' = <<>>
    /\ flushed' = FALSE
    /\ target_labels_pkl' = <<>>
    /\ filename_timestamps_json' = <<>>
    /\ pass1_order' = <<>>
    /\ pass2_order' = <<>>
    /\ dpc' = "memmap"
    /\ UNCHANGED <<alignVars, metadata, driverArgs, derr, split_at, batched,
                   filenames, embeddings, batch_timestamps, batch_labels,
                   save_at, disk, faults, completed>>

\* CallMemmap inside the loop over the batches: called as soon as one batch
\* of the split is persisted
CallMemmap_PerBatch ==
    /\ dpc = "batch" /\ batched > 0
    /\ EnterMemmap

\* after the loop over the batches of the split: memmap_embeddings
CallMemmap ==
    /\ dpc = "batch" /\ batched = Len(split_data[Split])
    /\ EnterMemmap

\* memmap_embeddings returned: the next split
MemmapReturned ==
    /\ dpc = "memmap" /\ mpc = "done"
    /\ completed' = Append(completed, Split)
    /\ split_at' = split_at + 1
    /\ dpc' = "split"
    /\ UNCHANGED <<alignVars, memmapVars, driverArgs, derr, batched,
                   filenames, embeddings, batch_timestamps, batch_labels,
                   save_at, disk, faults, consolidated>>

\* memmap_embeddings raised: the error leaves task_embeddings
MemmapRaised ==
    /\ dpc = "memmap" /\ mpc = "raised"
    /\ DRaise(merr)
    /\ UNCHANGED <<alignVars, memmapVars, driverArgs, split_at, batched,
                   filenames, embeddings, batch_timestamps, batch_labels,
                   save_at, disk, faults, consolidated, completed>>

\* the loop over the splits is over
Finish ==
    /\ dpc = "split" /\ split_at > Len(splits)
    /\ dpc' = "done"
    /\ UNCHANGED <<alignVars, memmapVars, driverArgs, derr, split_at, batched,
                   filenames, embeddings, batch_timestamps, batch_labels,
                   save_at, disk, faults, consolidated, completed>>

NextDriver ==
    \/ BeginSplit
    \/ EmbedBatch
    \/ Enter
    \/ DefaultBeginClip
    \/ DefaultTimestamp
    \/ DefaultEndClip
    \/ ContinuousBeginClip
    \/ ContinuousTimestamp
    \/ ContinuousEndClip
    \/ Return
    \/ AlignerReturned
    \/ AlignerRaised
    \/ SaveTimestampFile
    \/ SaveSceneEnter
    \/ SaveSceneFile
    \/ EndBatch
    \/ CallMemmap
    \/ Shuffle
    \/ Pass1File
    \/ WriteDimensions
    \/ Allocate
    \/ Pass2File
    \/ Flush
    \/ WriteTargetLabels
    \/ WriteFilenameTimestamps
    \/ MemmapReturned
    \/ MemmapRaised
    \/ Finish

\* one call of task_embeddings
SpecDriver == InitDriver /\ [][NextDriver]_vars

----------------------------------------------------------------------------
(* Properties of get_labels_for_timestamps, under SpecAlign *)

\* the label sequences computed so far, the clip in progress included
Produced ==
    IF pc = "timestamps" THEN Append(timestamp_labels, labels_for_sound)
    ELSE timestamp_labels

\* the events of clip c whose range [start, end + epsilon) contains t
Covering(c, t) ==
    {ev \in Range(labels[c]) : ev.start <= t /\ t < ev.end + Eps}

Aligned == Len(labels) = Len(timestamps)

\* C1: under the default policy with to_onehot false, the output at every
\* timestamp t of every clip holds exactly the values of the clip's intervals
\* whose range [start, end + epsilon) contains t: t = end still matches, and a
\* timestamp no interval covers gets the empty list.
C1_RawLabelsAreCoveringIntervals ==
    (mode = "default" /\ ~to_onehot) =>
        \A c \in DOMAIN Produced : \A k \in DOMAIN Produced[c] :
            Range(Produced[c][k]) =
                {ev.label : ev \in Covering(c, timestamps[c][k])}

\* C1 happens: a returned call where one timestamp sits on the end of a
\* longer interval and is labelled, and another timestamp of the same clip is
\* covered by nothing
C1_Witness ==
    /\ pc = "returned" /\ mode = "default" /\ ~to_onehot
    /\ \E c \in DOMAIN timestamp_labels :
        \E k1, k2 \in DOMAIN timestamp_labels[c] :
            /\ \E ev \in Range(labels[c]) :
                  /\ ev.start < ev.end
                  /\ ev.end = timestamps[c][k1]
                  /\ timestamp_labels[c][k1] = <<ev.label>>
            /\ timestamp_labels[c][k2] = <<>>

\* C2: under the default policy with to_onehot true every entry is one value,
\* chosen timestamp by timestamp within the clip: the value of the only
\* covering interval; with none, the previous choice of the clip, or
\* default_label when the clip has none yet; with two or more, the previous
\* choice if it is the value of a covering interval, else default_label.
\* Covering intervals are counted as the interval index holds them: each
\* (start, end, value) once.
C2_OneHotChoice ==
    (mode = "default" /\ to_onehot) =>
        \A c \in DOMAIN Produced : \A k \in DOMAIN Produced[c] :
            LET m == Covering(c, timestamps[c][k])
                vals == {ev.label : ev \in m}
                prev == IF k = 1 THEN None ELSE Produced[c][k - 1][1]
                expected ==
                    IF Cardinality(m) = 1 THEN CHOOSE l \in vals : TRUE
                    ELSE IF Cardinality(m) = 0
                         THEN IF prev # None THEN prev ELSE default_label
                         ELSE IF prev \in vals THEN prev ELSE default_label
            IN  Produced[c][k] = <<expected>>

\* C2 happens: a returned call where the second timestamp of a clip is covered
\* by two intervals and keeps the first timestamp's choice, which is not
\* default_label
C2_Witness ==
    /\ pc = "returned" /\ mode = "default" /\ to_onehot
    /\ \E c \in DOMAIN timestamp_labels :
          /\ Len(timestamp_labels[c]) = 2
          /\ Cardinality(Covering(c, timestamps[c][1])) = 1
          /\ Cardinality(Covering(c, timestamps[c][2])) = 2
          /\ timestamp_labels[c][2] = timestamp_labels[c][1]
          /\ timestamp_labels[c][2] # <<default_label>>

\* C3: for every clip of a batch, a clip without intervals included, and for
\* the policies default and continuous, the call returns one label sequence
\* per clip, as long as the clip's timestamps.
C3_OneSequencePerClip ==
    (mode \in {"default", "continuous"} /\ Aligned) =>
        /\ pc # "raised"
        /\ pc = "returned" =>
              /\ Len(timestamp_labels) = Len(timestamps)
              /\ \A c \in DOMAIN timestamps :
                    Len(timestamp_labels[c]) = Len(timestamps[c])

\* the onsets of clip c
OnsetsOf(c) == {labels[c][k].start : k \in DOMAIN labels[c]}

Min(S) == CHOOSE x \in S : \A y \in S : x <= y
Max(S) == CHOOSE x \in S : \A y \in S : x >= y

\* the first and the last event of clip c recorded at onset o
FirstAt(c, o) ==
    labels[c][Min({k \in DOMAIN labels[c] : labels[c][k].start = o})]
LastAt(c, o) ==
    labels[c][Max({k \in DOMAIN labels[c] : labels[c][k].start = o})]

\* a recorded value vector as the floats of the output
Floats(v) == [x \in DOMAIN v |-> <<v[x], 1>>]

\* the value mode 'smoothed' interpolates for a label: its indicator vector
LabelValue(l) == <<IF l = "dog" THEN 1 ELSE 0, IF l = "cat" THEN 1 ELSE 0>>

\* the value an event records under the interpolation policy of the call
RecordedValue(ev) ==
    IF mode = "smoothed" THEN LabelValue(ev.label) ELSE ev.values

InterpolationModes == {"smoothed", "continuous"}

\* every clip of the batch has events, and a timestamp on one of its onsets
OnsetQueried ==
    /\ Aligned
    /\ \A c \in DOMAIN labels :
          /\ labels[c] # <<>>
          /\ \E k \in DOMAIN timestamps[c] : timestamps[c][k] \in OnsetsOf(c)

\* C4: under the interpolation policies, smoothed and continuous, at a
\* timestamp that equals a recorded onset of the clip the call yields exactly
\* the value recorded at that onset (the one listed first, when several
\* events share the onset).
C4_ExactAtOnsetAnyPolicy ==
    (mode \in InterpolationModes /\ OnsetQueried) =>
        /\ pc # "raised"
        /\ \A c \in DOMAIN Produced : \A k \in DOMAIN Produced[c] :
              LET t == timestamps[c][k]
              IN  t \in OnsetsOf(c) =>
                      Produced[c][k] = Floats(RecordedValue(FirstAt(c, t)))

\* C4, for the policy continuous alone: at a timestamp that equals a recorded
\* onset the output is exactly the value recorded at that onset (the one
\* listed first, when several events share the onset).
C4_ExactAtOnset ==
    mode = "continuous" =>
        \A c \in DOMAIN Produced : \A k \in DOMAIN Produced[c] :
            LET t == timestamps[c][k]
            IN  t \in OnsetsOf(c) =>
                    Produced[c][k] = Floats(FirstAt(c, t).values)

\* C4 happens: a returned call with a timestamp on the later of two distinct
\* onsets whose values differ, and one on the earlier
C4_Witness ==
    /\ pc = "returned" /\ mode = "continuous"
    /\ \E c \in DOMAIN timestamp_labels :
          /\ Len(labels[c]) = 2
          /\ labels[c][1].values # labels[c][2].values
          /\ timestamps[c] = <<Min(OnsetsOf(c)), Max(OnsetsOf(c))>>
          /\ Min(OnsetsOf(c)) < Max(OnsetsOf(c))

\* every clip of the batch has events, and a timestamp before its smallest or
\* after its largest onset
OutsideQueried ==
    /\ Aligned
    /\ \A c \in DOMAIN labels :
          /\ labels[c] # <<>>
          /\ \E k \in DOMAIN timestamps[c] :
                \/ timestamps[c][k] < Min(OnsetsOf(c))
                \/ timestamps[c][k] > Max(OnsetsOf(c))

\* C5: under the interpolation policies, smoothed and continuous, before the
\* clip's smallest onset the call yields the value of the smallest onset and
\* after the largest onset the value of the largest onset, in whatever order
\* the events are listed.
C5_ClampOutsideOnsetsAnyPolicy ==
    (mode \in InterpolationModes /\ OutsideQueried) =>
        /\ pc # "raised"
        /\ \A c \in DOMAIN Produced : \A k \in DOMAIN Produced[c] :
              LET t == timestamps[c][k]
                  lo == Min(OnsetsOf(c))
                  hi == Max(OnsetsOf(c))
              IN  /\ t < lo =>
                        Produced[c][k] = Floats(RecordedValue(FirstAt(c, lo)))
                  /\ t > hi =>
                        Produced[c][k] = Floats(RecordedValue(LastAt(c, hi)))

\* C5, for the policy continuous alone: before the smallest onset the output
\* is the value of the smallest onset and after the largest onset it is the
\* value of the largest onset, in whatever order the events are listed.
C5_ClampOutsideOnsets ==
    mode = "continuous" =>
        \A c \in DOMAIN Produced : \A k \in DOMAIN Produced[c] :
            LET t == timestamps[c][k]
                lo == Min(OnsetsOf(c))
                hi == Max(OnsetsOf(c))
            IN  /\ t < lo => Produced[c][k] = Floats(FirstAt(c, lo).values)
                /\ t > hi => Produced[c][k] = Floats(LastAt(c, hi).values)

\* C5 happens: a returned call on a clip whose events are listed latest
\* first, with one timestamp before the smallest onset and one after the
\* largest
C5_Witness ==
    /\ pc = "returned" /\ mode = "continuous"
    /\ \E c \in DOMAIN timestamp_labels :
          /\ Len(labels[c]) = 2
          /\ labels[c][1].start > labels[c][2].start
          /\ labels[c][1].values # labels[c][2].values
          /\ Len(timestamps[c]) = 2
          /\ timestamps[c][1] < labels[c][2].start
          /\ timestamps[c][2] > labels[c][1].start

\* C6: under the continuous policy, at a timestamp t strictly between two
\* consecutive sorted onsets lo < t < hi the output is, component by
\* component, (1 - alpha) * v_lo + alpha * v_hi with
\* alpha = (t - lo) / (hi - lo).
C6_LinearBetweenOnsets ==
    mode = "continuous" =>
        \A c \in DOMAIN Produced : \A k \in DOMAIN Produced[c] :
            LET t == timestamps[c][k]
                before == {o \in OnsetsOf(c) : o < t}
                after == {o \in OnsetsOf(c) : o > t}
            IN  (t \notin OnsetsOf(c) /\ before # {} /\ after # {}) =>
                    LET lo == Max(before)
                        hi == Min(after)
                        vlo == LastAt(c, lo).values
                        vhi == FirstAt(c, hi).values
                        out == Produced[c][k]
                    IN  /\ Len(out) = Len(vlo)
                        /\ \A x \in DOMAIN out :
                              /\ out[x][2] > 0
                              /\ out[x][1] * (hi - lo) =
                                    out[x][2] * ((hi - t) * vlo[x]
                                                 + (t - lo) * vhi[x])

\* C6 happens: onsets 1 -> [0, 0] and 3 -> [1, 2] queried at 2 give
\* [1/2, 1], and onsets 0 -> [0, 0] and 3 -> [1, 2] queried at 1 give
\* [1/3, 2/3]
C6_Witness ==
    /\ pc = "returned" /\ mode = "continuous"
    /\ \/ /\ labels = <<<<[start |-> 1, values |-> <<0, 0>>],
                          [start |-> 3, values |-> <<1, 2>>]>>>>
          /\ timestamps = <<<<2>>>>
          /\ timestamp_labels = <<<<<<<<1, 2>>, <<1, 1>>>>>>>>
       \/ /\ labels = <<<<[start |-> 0, values |-> <<0, 0>>],
                          [start |-> 3, values |-> <<1, 2>>]>>>>
          /\ timestamps = <<<<1>>>>
          /\ timestamp_labels = <<<<<<<<1, 3>>, <<2, 3>>>>>>>>

\* what the interpolation of mode 'continuous' gives at t for the clip's
\* (onset, value) pairs
ContinuousAt(pairs, t) ==
    Interpolate([k \in DOMAIN pairs |->
                    <<SortedByOnset(pairs)[k][1],
                      AsFloat(SortedByOnset(pairs)[k][2])>>], t)

\* C7: mode 'smoothed' returns, for every timestamp of every clip with
\* events, the clamped or interpolated value mode 'continuous' returns for
\* the same (onset, value) pairs.
C7_SmoothedAsContinuous ==
    (mode = "smoothed" /\ Aligned /\ \A c \in DOMAIN labels : labels[c] # <<>>) =>
        /\ pc # "raised"
        /\ pc = "returned" =>
              /\ Len(timestamp_labels) = Len(timestamps)
              /\ \A c \in DOMAIN timestamp_labels :
                    /\ Len(timestamp_labels[c]) = Len(timestamps[c])
                    /\ \A k \in DOMAIN timestamp_labels[c] :
                          timestamp_labels[c][k] =
                              ContinuousAt(
                                  [e \in DOMAIN labels[c] |->
                                      <<labels[c][e].start,
                                        LabelValue(labels[c][e].label)>>],
                                  timestamps[c][k])

\* C8: a call with a policy name other than default, smoothed and continuous
\* ends in an error at the call: no clip is processed and nothing is returned.
C8_UnknownPolicyRaises ==
    mode \notin {"default", "smoothed", "continuous"} =>
        /\ pc \in {"call", "raised"}
        /\ timestamp_labels = <<>>
        /\ labels_for_sound = <<>>

\* C8 happens: a call with policy 'probabilities' on a batch of two clips
\* has raised
C8_Witness ==
    /\ mode = "probabilities" /\ pc = "raised" /\ err = "TypeError"
    /\ Len(labels) = 2 /\ Aligned

----------------------------------------------------------------------------
(* Properties of memmap_embeddings, under SpecMemmap *)

\* the rows file f contributes: one for a scene embedding, T otherwise
RowCount(f) ==
    IF metadata.embedding_type = "scene" THEN 1 ELSE split_files[f].shape[1]

\* the columns of file f
ColCount(f) == split_files[f].shape[Len(split_files[f].shape)]

RECURSIVE SumRows(_)
SumRows(fs) == IF fs = <<>> THEN 0 ELSE RowCount(Head(fs)) + SumRows(Tail(fs))

AllFiles == [f \in DOMAIN split_files |-> f]

\* C9: the sizing pass reports (N, D): N the sum over the files of the split
\* of the file's row count (1 per scene file, T_i per event or continuous
\* file), D the column count the files share.
C9_SizingPassDimensions ==
    dimensions_json # <<>> =>
        /\ Len(dimensions_json) = 2
        /\ dimensions_json[1] = SumRows(AllFiles)
        /\ \A d \in 1 .. MaxCols :
              (\A f \in DOMAIN split_files : ColCount(f) = d) =>
                  dimensions_json[2] = d

\* C9 happens: two event files of shape (2, 2) are reported as [4, 2], or two
\* continuous files of 1 and 2 rows as [3, 2]
C9_Witness ==
    \/ /\ metadata.embedding_type = "event"
       /\ Len(split_files) = 2
       /\ \A f \in DOMAIN split_files : split_files[f].shape = <<2, 2>>
       /\ dimensions_json = <<4, 2>>
    \/ /\ metadata.embedding_type = "continuous"
       /\ Len(split_files) = 2
       /\ split_files[1].shape = <<1, 2>> /\ split_files[2].shape = <<2, 2>>
       /\ dimensions_json = <<3, 2>>

\* the rows before the slice of the p-th file of the order
Offset(order, p) == SumRows(SubSeq(order, 1, p - 1))

\* C10: once memmap_embeddings has completed, the array, the split's label
\* list and (event, continuous) its filename-timestamp list all have N
\* entries; row i, label i and timestamp reference i are the same observation
\* of the same file; and the files' slices follow one another from row 0 to
\* row N - 1 in the file order of the sizing pass.
C10_RowsLabelsTimestampsAligned ==
    mpc = "done" =>
        LET n == dimensions_json[1]
            lbls == target_labels_pkl[1]
        IN  /\ Len(embedding_memmap) = n
            /\ Len(lbls) = n
            /\ pass2_order = pass1_order
            /\ n = SumRows(pass1_order)
            /\ \A p \in DOMAIN pass1_order :
                  \A r \in 1 .. RowCount(pass1_order[p]) :
                      embedding_memmap[Offset(pass1_order, p) + r] =
                          Token(pass1_order[p], r)
            /\ IF metadata.embedding_type = "scene"
               THEN \A k \in 1 .. n : lbls[k] = Lbl(embedding_memmap[k].file)
               ELSE /\ Len(filename_timestamps_json[1]) = n
                    /\ \A k \in 1 .. n :
                          /\ lbls[k] = embedding_memmap[k]
                          /\ filename_timestamps_json[1][k] =
                                <<embedding_memmap[k].file, embedding_memmap[k]>>

\* C10 happens: an event split of two files with different row counts,
\* consolidated in the order opposite to the split's keys
C10_Witness ==
    /\ mpc = "done"
    /\ metadata.embedding_type = "event"
    /\ embedding_files = <<2, 1>>
    /\ RowCount(1) # RowCount(2)
    /\ Len(filename_timestamps_json[1]) = 3

\* the split-level artifacts written after pass 2
NoSplitLabels == target_labels_pkl = <<>> /\ filename_timestamps_json = <<>>

\* the files of the split whose label list is not of length 1
NotOneLabel == {f \in DOMAIN split_files : split_files[f].lbl # 1}

\* C11: consolidating a scene split with prediction_type multiclass, a file
\* whose label list is not of length 1 makes memmap_embeddings abort: pass 2
\* does not get past that file, the call never completes and the split's
\* target-labels artifact is never written.
C11_MulticlassOneLabel ==
    (/\ metadata.embedding_type = "scene"
     /\ metadata.prediction_type = "multiclass"
     /\ NotOneLabel # {}) =>
        /\ mpc \in {"shuffle", "pass1", "allocate", "pass2", "raised"}
        /\ target_labels_pkl = <<>>
        /\ \A k \in DOMAIN pass2_order :
              pass2_order[k] \in NotOneLabel =>
                  /\ k = Len(pass2_order)
                  /\ mpc = "raised"

\* C11 happens: a multiclass scene split of two well-formed embeddings; pass 2
\* copied the file with one label, then raised on the file with two
C11_Witness ==
    /\ metadata = [embedding_type |-> "scene", prediction_type |-> "multiclass"]
    /\ Len(split_files) = 2
    /\ split_files \in GoodSplits("scene")
    /\ Len(pass2_order) = 2
    /\ split_files[pass2_order[1]].lbl = 1
    /\ split_files[pass2_order[2]].lbl = 2
    /\ mpc = "raised" /\ merr = "AssertionError"
    /\ Len(mlabels) = 1
    /\ target_labels_pkl = <<>>

\* the column counts differ within the split
ColumnsDiffer ==
    \E f, g \in DOMAIN split_files : ColCount(f) # ColCount(g)

\* C12: when a file of the split has a column count other than that of the
\* file processed first, memmap_embeddings aborts: it never flushes a
\* consolidated array and never completes, wherever the deviating file is in
\* the order and whatever the two column counts are.
C12_ColumnMismatchFatal ==
    ColumnsDiffer =>
        /\ ~flushed
        /\ mpc \in {"shuffle", "pass1", "allocate", "pass2", "raised"}
        /\ NoSplitLabels

\* C13: a per-file embedding stored with a dtype other than 32-bit float
\* makes the consolidation abort: the file is neither accepted nor converted,
\* so no consolidated array is flushed, no split-level artifact is written and
\* the call never completes.
C13_DtypeValidated ==
    (\E f \in DOMAIN split_files : split_files[f].dtype # "float32") =>
        /\ ~flushed
        /\ mpc \in {"shuffle", "pass1", "allocate", "pass2", "raised"}
        /\ NoSplitLabels

\* C17: consolidating a scene split whose prediction_type is neither
\* multiclass nor multilabel fails in pass 2 at the first file: the call never
\* completes and the split's target-labels artifact is never written.
C17_OtherPredictionTypeFails ==
    (/\ metadata.embedding_type = "scene"
     /\ metadata.prediction_type \notin {"multiclass", "multilabel"}
     /\ split_files # <<>>) =>
        /\ mpc \in {"shuffle", "pass1", "allocate", "pass2", "raised"}
        /\ target_labels_pkl = <<>>

\* one step of memmap_embeddings keeps the order of the stages: the sidecar
\* is written once the sizing pass has visited every file and before anything
\* is allocated; the array is allocated once the sidecar is written; a file is
\* copied only into the allocated array and before the flush; the flush comes
\* once every file is copied and before any split-level artifact; the label
\* list is written after the flush and the filename-timestamp list after it
StagesInOrder ==
    /\ dimensions_json' # dimensions_json =>
          /\ Len(pass1_order) = Len(split_files)
          /\ embedding_memmap = <<>> /\ pass2_order = <<>>
    /\ (embedding_memmap = <<>> /\ embedding_memmap' # <<>>) =>
          /\ dimensions_json # <<>>
          /\ pass2_order = <<>>
    /\ pass2_order' # pass2_order =>
          /\ dimensions_json # <<>>
          /\ Len(embedding_memmap) = dimensions_json[1]
          /\ ~flushed /\ NoSplitLabels
    /\ flushed' # flushed =>
          /\ flushed'
          /\ Len(pass2_order) = Len(split_files)
          /\ NoSplitLabels
    /\ target_labels_pkl' # target_labels_pkl =>
          /\ flushed /\ merr = None
          /\ filename_timestamps_json = <<>>
    /\ filename_timestamps_json' # filename_timestamps_json =>
          /\ flushed /\ merr = None
          /\ target_labels_pkl # <<>>
          /\ metadata.embedding_type \in TimestampTypes

\* C15: every run of memmap_embeddings goes through its steps in this order:
\* sizing pass over every file, (N, D) sidecar, allocation of the mapped array,
\* pass 2 over every file, flush, and only then the split-level label list
\* and filename-timestamp list; a run in which a check of pass 1 or pass 2
\* fails never writes the split-level artifacts.
C15_StepsInOrder ==
    /\ [][StagesInOrder]_vars
    /\ [](merr # None => NoSplitLabels)
    /\ [](mpc = "done" =>
            /\ flushed /\ target_labels_pkl # <<>>
            /\ (metadata.embedding_type \in TimestampTypes
                  => filename_timestamps_json # <<>>))

\* C15 happens: an event split of two files went through every stage to the
\* end
C15_Witness ==
    /\ mpc = "done"
    /\ metadata.embedding_type = "event"
    /\ Len(pass1_order) = 2 /\ Len(pass2_order) = 2
    /\ dimensions_json # <<>> /\ flushed
    /\ target_labels_pkl # <<>> /\ filename_timestamps_json # <<>>

----------------------------------------------------------------------------
(* Properties of task_embeddings and the per-file persisters, under         *)
(* SpecDriver                                                               *)

\* the per-file artifacts of file f of split n are written
Written(n, f) == disk[n][f] # Missing

\* the persist step of the batch in hand has completed
BatchPersisted == dpc = "batch" /\ batched > 0

\* C14: a batch whose embeddings, timestamp vectors, label sequences and
\* filenames differ in number (event, continuous), or whose embeddings, labels
\* and filenames do (scene), does not get through the persist step; and no
\* artifact is written for a clip whose embedding rows, timestamps and labels
\* differ in number.
C14_MisalignedBatchFails ==
    /\ BatchPersisted =>
          /\ Len(embeddings) = Len(filenames)
          /\ Len(batch_labels) = Len(filenames)
          /\ metadata.embedding_type \in TimestampTypes =>
                Len(batch_timestamps) = Len(filenames)
    /\ metadata.embedding_type \in TimestampTypes =>
          \A n \in SplitNames : \A f \in DOMAIN disk[n] :
              Written(n, f) =>
                  /\ disk[n][f].shape[1] = disk[n][f].ts
                  /\ disk[n][f].shape[1] = disk[n][f].lbl

\* C14, for a scene batch alone: a batch whose embeddings, labels and
\* filenames differ in number writes no artifact and does not get through the
\* persist step.
C14_SceneBatchChecked ==
    (/\ metadata.embedding_type = "scene"
     /\ dpc \in {"save_scene", "batch"} /\ filenames # <<>>) =>
        /\ Len(embeddings) = Len(filenames)
        /\ Len(batch_labels) = Len(filenames)

\* every file of split n has its artifacts
FullyPersisted(n) == \A f \in DOMAIN disk[n] : Written(n, f)

\* no file of split n has artifacts
Untouched(n) == \A f \in DOMAIN disk[n] : ~Written(n, f)

\* C16: task_embeddings calls the consolidator for the splits in the order of
\* the metadata, once each, and for a split only when every batch of it is
\* embedded and persisted; when a batch fails the consolidator is not called
\* for that split and no later split is processed.
C16_ConsolidateOncePerSplit ==
    /\ consolidated = SubSeq(splits, 1, Len(consolidated))
    /\ completed = SubSeq(splits, 1, Len(completed))
    /\ Len(consolidated) \in {Len(completed), Len(completed) + 1}
    /\ \A k \in DOMAIN consolidated : FullyPersisted(consolidated[k])
    /\ \A k \in DOMAIN splits :
          k > split_at => /\ Untouched(splits[k])
                          /\ k > Len(consolidated)
    /\ dpc = "done" => consolidated = splits /\ completed = splits
    /\ (dpc = "raised" /\ mpc # "raised") =>
          /\ Len(consolidated) = split_at - 1
          /\ Len(completed) = split_at - 1

\* C16 happens: a task of two splits of two files each, embedded one file a
\* batch, has run to its end
C16_Witness ==
    /\ dpc = "done"
    /\ Len(splits) = 2
    /\ batch_size = 1
    /\ \A n \in SplitNames : Len(split_data[n]) = 2
    /\ consolidated = splits

====
